---- MODULE Spec2Model ----
(***************************************************************************)
(* gatsby-theme-kuworking-core, gatsby-node hooks: onCreatePage,          *)
(* onCreateNode and createPages, as a state machine driven by the host.   *)
(*                                                                         *)
(* A JavaScript string that the code takes apart (paths, slugs, tags) is  *)
(* a sequence of one-character strings; an opaque string (a title, a      *)
(* type, a node id part) is a TLA+ string.  undefined is <<>> and a       *)
(* defined value v is <<v>> wherever a value may be missing.              *)
(***************************************************************************)
EXTENDS Integers, Sequences, FiniteSets, TLC

VARIABLES pc, handler, args, calls, deletedPages, createdPages, createdNodes,
          links, panics, store

vars == <<pc, handler, args, calls, deletedPages, createdPages, createdNodes,
          links, panics, store>>

\* ------------------------------------------------------------------ bounds
MaxPathLen == 4
MaxSlugLen == 3
MaxNameLen == 3
MaxPosts == 4
MaxPerPage == 3

\* ------------------------------------------------------- JavaScript values
Undefined == <<>>

Some(v) == <<v>>

IsDefined(o) == o # <<>>

\* string literals used by the code and by the inputs
Root == <<"/">>

AllSeqs(alphabet, n) == UNION {[1..k -> alphabet] : k \in 0..n}

HasDoubleSlash(s) == \E i \in 1..(Len(s) - 1) : s[i] = "/" /\ s[i + 1] = "/"

\* String.prototype.includes
includes(s, sub) ==
  \E i \in 0..(Len(s) - Len(sub)) : SubSeq(s, i + 1, i + Len(sub)) = sub

\* String.prototype.split(sep) for a one-character separator
RECURSIVE split(_, _)
split(s, sep) ==
  IF \A i \in 1..Len(s) : s[i] # sep
    THEN <<s>>
    ELSE LET i == CHOOSE j \in 1..Len(s) :
                    s[j] = sep /\ \A k \in 1..(j - 1) : s[k] # sep
         IN  <<SubSeq(s, 1, i - 1)>> \o split(SubSeq(s, i + 1, Len(s)), sep)

\* Array.prototype.join(sep)
RECURSIVE join(_, _)
join(segs, sep) ==
  IF Len(segs) = 0 THEN <<>>
  ELSE IF Len(segs) = 1 THEN segs[1]
  ELSE segs[1] \o sep \o join(Tail(segs), sep)

\* Number to decimal string, as a template literal renders it
Digit(d) == <<"0", "1", "2", "3", "4", "5", "6", "7", "8", "9">>[d + 1]

RECURSIVE NumToStr(_)
NumToStr(n) == IF n < 10 THEN <<Digit(n)>> ELSE NumToStr(n \div 10) \o <<Digit(n % 10)>>

\* ------------------------------------------------------------- node's path
\* path.posix.isAbsolute
isAbsolute(p) == Len(p) > 0 /\ p[1] = "/"

\* path.posix normalizeString: drops empty and "." segments, resolves ".."
RECURSIVE normalizeSegments(_, _, _)
normalizeSegments(segs, res, allowAboveRoot) ==
  IF Len(segs) = 0 THEN res
  ELSE LET seg == Head(segs)
           rest == Tail(segs)
       IN  IF seg = <<>> \/ seg = <<".">>
             THEN normalizeSegments(rest, res, allowAboveRoot)
           ELSE IF seg = <<".", ".">>
             THEN IF Len(res) > 0 /\ res[Len(res)] # <<".", ".">>
                    THEN normalizeSegments(rest, SubSeq(res, 1, Len(res) - 1), allowAboveRoot)
                  ELSE IF allowAboveRoot
                    THEN normalizeSegments(rest, Append(res, seg), allowAboveRoot)
                  ELSE normalizeSegments(rest, res, allowAboveRoot)
           ELSE normalizeSegments(rest, Append(res, seg), allowAboveRoot)

\* path.posix.normalize
normalize(p) ==
  IF Len(p) = 0 THEN <<".">>
  ELSE LET abs == isAbsolute(p)
           trailing == p[Len(p)] = "/"
           body == join(normalizeSegments(split(p, "/"), <<>>, ~abs), <<"/">>)
           body2 == IF Len(body) = 0 /\ ~abs THEN <<".">> ELSE body
           body3 == IF Len(body2) > 0 /\ trailing THEN body2 \o <<"/">> ELSE body2
       IN  IF abs THEN <<"/">> \o body3 ELSE body3

\* path.posix.join of two segments
pathJoin(a, b) ==
  LET joined == IF Len(a) = 0 THEN b
                ELSE IF Len(b) = 0 THEN a
                ELSE a \o <<"/">> \o b
  IN  IF Len(joined) = 0 THEN <<".">> ELSE normalize(joined)

\* gatsby-core-utils urlResolve (posix): path.join of its segments
urlResolve(a, b) == pathJoin(a, b)

\* replacePath, gatsby-node.js: one trailing slash removed, "/" kept
replacePath(_path) ==
  IF _path = Root THEN _path
  ELSE IF Len(_path) > 0 /\ _path[Len(_path)] = "/"
    THEN SubSeq(_path, 1, Len(_path) - 1)
  ELSE _path

\* ------------------------------------------------------------ themeOptions
\* withDefaults(themeOptions): the option record the hooks destructure
BasePaths == {Root, <<"/", "b">>, <<"/", "b", "/">>}

DefaultOptions ==
  [basePath |-> Root,
   postsPath |-> "content/posts",
   recipesPath |-> "content/recipes",
   postsPerPage |-> 1,
   tagsPath |-> <<"t", "a", "g", "s">>,
   do_not_count_type_for_pagination |-> Undefined,
   do_not_include_type_in_lists |-> Undefined,
   do_not_create_tag_page_for |-> Undefined]

\* ------------------------------------------------------------ onCreatePage
\* object spread {...a, ...b}: b's keys win
Spread(a, b) ==
  [k \in (DOMAIN a) \cup (DOMAIN b) |-> IF k \in DOMAIN b THEN b[k] ELSE a[k]]

NoContext == [k \in {} |-> <<>>]

PageContexts ==
  {NoContext,
   [k \in {"id"} |-> <<"x">>],
   [k \in {"id", "basePath"} |-> IF k = "id" THEN <<"x">> ELSE <<"/", "o">>]}

PagePathChars == {"/", "4", "0", "a"}

PagePaths ==
  {p \in {Root \o s : s \in AllSeqs(PagePathChars, MaxPathLen)} : ~HasDoubleSlash(p)}

Pages == [path : PagePaths, context : PageContexts]

PageOptions == {[DefaultOptions EXCEPT !.basePath = b] : b \in BasePaths}

Is404(page) == includes(page.path, <<"4", "0", "4">>)

\* the spread written before basePath: the option overrides the page's own key
ResolvedPageOptionWins(page, themeOptions) ==
  [path |-> urlResolve(replacePath(themeOptions.basePath), replacePath(page.path)),
   context |-> Spread(page.context, [k \in {"basePath"} |-> themeOptions.basePath])]

\* createPage({ ...page, path: urlResolve(...), context: { basePath, ...page.context } })
ResolvedPage(page, themeOptions) ==
  [path |-> urlResolve(replacePath(themeOptions.basePath), replacePath(page.path)),
   context |-> Spread([k \in {"basePath"} |-> themeOptions.basePath], page.context)]

Idle == pc = "idle"

OnCreatePage ==
  /\ Idle
  /\ \E page \in Pages, themeOptions \in PageOptions :
       /\ handler' = "onCreatePage"
       /\ args' = [page |-> page, themeOptions |-> themeOptions]
       /\ IF Is404(page)
            THEN /\ calls' = <<>>
                 /\ deletedPages' = <<>>
                 /\ createdPages' = <<>>
            ELSE /\ calls' = <<"deletePage", "createPage">>
                 /\ deletedPages' = <<page>>
                 /\ createdPages' = <<ResolvedPage(page, themeOptions)>>
  /\ pc' = "done"
  /\ UNCHANGED <<createdNodes, links, panics, store>>

\* ------------------------------------------------------------ onCreateNode
\* front-matter values whose JavaScript type varies: tagged, one shape
JsUndefined == [t |-> "undefined", s |-> "", a |-> <<>>]

JsNull == [t |-> "null", s |-> "", a |-> <<>>]

JsString(s) == [t |-> "string", s |-> s, a |-> <<>>]

JsArray(a) == [t |-> "array", s |-> "", a |-> a]

\* ToBoolean: undefined, null and "" are falsy, every array is truthy
Truthy(v) == (v.t = "string" /\ v.s # "") \/ v.t = "array"

\* a ?? b in place of a || b: only undefined and null give the default
OrElseNullish(v, d) == IF v.t \in {"undefined", "null"} THEN d ELSE v

\* a || b
OrElse(v, d) == IF Truthy(v) THEN v ELSE d

\* ToBoolean of a string that may be undefined
TruthyStr(o) == IsDefined(o) /\ Len(o[1]) > 0

\* String.prototype.trim (spaces)
RECURSIVE trimStart(_)
trimStart(s) == IF Len(s) > 0 /\ s[1] = " " THEN trimStart(Tail(s)) ELSE s

RECURSIVE trimEnd(_)
trimEnd(s) ==
  IF Len(s) > 0 /\ s[Len(s)] = " " THEN trimEnd(SubSeq(s, 1, Len(s) - 1)) ELSE s

trim(s) == trimEnd(trimStart(s))

\* normalize('NFD').replace(/[\u0300-\u036f]/g, ''): the accent of a letter drops
Unaccent(c) == IF c = "e'" THEN "e" ELSE c

\* replace(/ /g, '-')
Dash(c) == IF c = " " THEN "-" ELSE c

NormalizeTag(el) == LET t == trim(el) IN [i \in 1..Len(t) |-> Dash(Unaccent(t[i]))]

\* node.frontmatter.tags ? node.frontmatter.tags.split(',').map(...) : []
TagsOf(frontmatter) ==
  IF TruthyStr(frontmatter.tags)
    THEN LET parts == split(frontmatter.tags[1], ",")
         IN  [i \in 1..Len(parts) |-> NormalizeTag(parts[i])]
    ELSE <<>>

\* index of the last occurrence of c in s, 0 when there is none
LastIndexOf(s, c) ==
  IF \E i \in 1..Len(s) : s[i] = c
    THEN CHOOSE i \in 1..Len(s) : s[i] = c /\ \A j \in (i + 1)..Len(s) : s[j] # c
    ELSE 0

\* gatsby-source-filesystem createFilePath: the file's relative path without
\* its extension, under "/", with a trailing slash; an index file is its directory
createFilePath(fileNode) ==
  LET rel == fileNode.relativePath
      cut == LastIndexOf(rel, "/")
      dir == SubSeq(rel, 1, cut - 1)
      base == SubSeq(rel, cut + 1, Len(rel))
      dot == LastIndexOf(base, ".")
      name == IF dot > 1 THEN SubSeq(base, 1, dot - 1) ELSE base
      parsedName == IF name = <<"i", "n", "d", "e", "x">> THEN <<>> ELSE name
  IN  pathJoin(pathJoin(pathJoin(Root, dir), parsedName), Root)

IsDigit(c) == c \in {"0", "1", "2", "3", "4", "5", "6", "7", "8", "9"}

\* /^.\d{4}\.\d{2}\.\d{2}\./.test(filePath)
HasDatePrefix(filePath) ==
  /\ Len(filePath) >= 12
  /\ \A i \in {2, 3, 4, 5, 7, 8, 10, 11} : IsDigit(filePath[i])
  /\ \A i \in {6, 9, 12} : filePath[i] = "."

\* '/' + filePath.split('.').pop()
AfterLastDot(filePath) ==
  LET parts == split(filePath, ".") IN <<"/">> \o parts[Len(parts)]

ChangedPath(filePath) ==
  IF HasDatePrefix(filePath) THEN AfterLastDot(filePath) ELSE filePath

\* the slug before the final replacePath
RawSlug(node, fileNode, themeOptions) ==
  IF TruthyStr(node.frontmatter.slug)
    THEN IF isAbsolute(node.frontmatter.slug[1])
           THEN node.frontmatter.slug[1]
           ELSE urlResolve(themeOptions.basePath, node.frontmatter.slug[1])
    ELSE urlResolve(themeOptions.basePath, ChangedPath(createFilePath(fileNode)))

SlugOf(node, fileNode, themeOptions) == replacePath(RawSlug(node, fileNode, themeOptions))

FieldData(node, fileNode, themeOptions) ==
  [title |-> node.frontmatter.title,
   tags |-> TagsOf(node.frontmatter),
   slug |-> SlugOf(node, fileNode, themeOptions),
   date |-> node.frontmatter.date,
   keywords |-> OrElse(node.frontmatter.keywords, JsArray(<<>>)),
   type |-> OrElse(node.frontmatter.type, JsString("")),
   snippet |-> OrElse(node.frontmatter.snippet, JsString("")),
   abstract |-> OrElse(node.frontmatter.abstract, JsString(""))]

\* createNodeId(`${node.id} >>> MdxBlogPost`), a host-made id
createNodeId(nodeId) == <<nodeId, ">>> MdxBlogPost">>

\* the createNode argument: { ...fieldData, id, parent, children, internal };
\* internal.contentDigest and internal.content, a hash and a serialisation of
\* fieldData, are left out
MdxBlogPost(node, fileNode, themeOptions) ==
  Spread(FieldData(node, fileNode, themeOptions),
         [id |-> createNodeId(node.id),
          parent |-> node.id,
          children |-> <<>>,
          internal |-> [type |-> "MdxBlogPost"]])

\* the recipesPath alternative left out
IsBlogSourcePostsOnly(node, fileNode, themeOptions) ==
  /\ node.internal.type = "Mdx"
  /\ fileNode.sourceInstanceName = themeOptions.postsPath

\* node.internal.type === `Mdx` && (source === postsPath || source === recipesPath)
IsBlogSource(node, fileNode, themeOptions) ==
  /\ node.internal.type = "Mdx"
  /\ \/ fileNode.sourceInstanceName = themeOptions.postsPath
     \/ fileNode.sourceInstanceName = themeOptions.recipesPath

\* getNode(id) of the host's store: the node, or undefined
getNode(nodes, id) ==
  IF \E n \in nodes : n.id = id THEN Some(CHOOSE n \in nodes : n.id = id) ELSE Undefined

\* ---- inputs of onCreateNode
SlugChars == {"/", "a", "."}

Slugs == AllSeqs(SlugChars, MaxSlugLen)

DatePrefix == <<"2", "0", "2", "0", ".", "0", "1", ".", "0", "2", ".">>

NamePrefixes ==
  {<<>>,
   DatePrefix,
   <<"2", "0", "2", "0", ".", "0", "1", ".", "0", "2">>,
   <<"2", "0", "2", "a", ".", "0", "1", ".", "0", "2", ".">>}

NameChars == {"a", "."}

\* file names neither start nor end with a dot
Names ==
  {n \in AllSeqs(NameChars, MaxNameLen) : Len(n) > 0 /\ n[1] # "." /\ n[Len(n)] # "."}

Mdx == <<".", "m", "d", "x">>

RelativePaths ==
  {d \o p \o n \o Mdx : d \in {<<>>, <<"d", "/">>}, p \in NamePrefixes, n \in Names}
    \cup {<<"d", "/", "i", "n", "d", "e", "x">> \o Mdx}

RawTags ==
  {Undefined,
   Some(<<>>),
   Some(<<"a">>),
   Some(<<"a", ",", "b">>),
   Some(<<"a", ",", " ", "a">>),
   Some(<<" ", "e'", " ", "b", ",", "e">>)}

BaseFrontmatter ==
  [title |-> "T", date |-> "2020-01-02", slug |-> Undefined, tags |-> Undefined,
   keywords |-> JsUndefined, type |-> JsUndefined, snippet |-> JsUndefined,
   abstract |-> JsUndefined]

SlugFrontmatters == {[BaseFrontmatter EXCEPT !.slug = Some(s)] : s \in Slugs}

FieldFrontmatters ==
  {[BaseFrontmatter EXCEPT !.tags = tg, !.keywords = k, !.type = ty,
                           !.snippet = sn, !.abstract = ab] :
     tg \in RawTags,
     k \in {JsUndefined, JsNull, JsString(""), JsString("k"), JsArray(<<>>),
            JsArray(<<"k">>)},
     ty \in {JsUndefined, JsNull, JsString(""), JsString("recipe")},
     sn \in {JsUndefined, JsString(""), JsString("s")},
     ab \in {JsUndefined, JsString("a")}}

MdxNode(frontmatter) ==
  [id |-> "n1", internal |-> [type |-> "Mdx"], frontmatter |-> frontmatter]

FileNode(source, relativePath) ==
  [sourceInstanceName |-> source, relativePath |-> relativePath]

APost == <<"p", Mdx[1], Mdx[2], Mdx[3], Mdx[4]>>

NodeInputs ==
  {[node |-> MdxNode(fm), fileNode |-> FileNode(src, APost), themeOptions |-> o] :
     fm \in SlugFrontmatters,
     src \in {DefaultOptions.postsPath, DefaultOptions.recipesPath},
     o \in PageOptions}
  \cup
  {[node |-> MdxNode(fm), fileNode |-> FileNode(DefaultOptions.postsPath, rp),
    themeOptions |-> o] :
     fm \in {BaseFrontmatter, [BaseFrontmatter EXCEPT !.slug = Some(<<>>)]},
     rp \in RelativePaths,
     o \in PageOptions}
  \cup
  {[node |-> MdxNode(fm), fileNode |-> FileNode(DefaultOptions.postsPath, APost),
    themeOptions |-> DefaultOptions] :
     fm \in FieldFrontmatters}
  \cup
  {[node |-> [MdxNode(BaseFrontmatter) EXCEPT !.internal.type = ty],
    fileNode |-> FileNode(src, APost), themeOptions |-> DefaultOptions] :
     ty \in {"Mdx", "File", "MdxBlogPost"},
     src \in {DefaultOptions.postsPath, DefaultOptions.recipesPath, "content/pages"}}

\* the hook up to its await of createNode
OnCreateNode ==
  /\ Idle
  /\ \E in \in NodeInputs :
       /\ handler' = "onCreateNode"
       /\ args' = in
       /\ IF IsBlogSource(in.node, in.fileNode, in.themeOptions)
            THEN /\ calls' = <<"createNode">>
                 /\ createdNodes' = <<MdxBlogPost(in.node, in.fileNode, in.themeOptions)>>
                 /\ pc' = "awaitCreateNode"
            ELSE /\ calls' = <<>>
                 /\ createdNodes' = <<>>
                 /\ pc' = "done"
  /\ UNCHANGED <<deletedPages, createdPages, links, panics, store>>

\* the host completes createNode: the node is in its store
CreateNodeSettles ==
  /\ pc = "awaitCreateNode"
  /\ store' = store \cup {createdNodes[Len(createdNodes)]}
  /\ pc' = "createNodeSettled"
  /\ UNCHANGED <<handler, args, calls, deletedPages, createdPages, createdNodes,
                 links, panics>>

\* the hook after the await
OnCreateNodeResume ==
  /\ pc = "createNodeSettled"
  /\ calls' = Append(calls, "createParentChildLink")
  /\ links' = Append(links, [parent |-> args.node,
                             child |-> getNode(store, createNodeId(args.node.id))])
  /\ pc' = "done"
  /\ UNCHANGED <<handler, args, deletedPages, createdPages, createdNodes, panics,
                 store>>

\* ------------------------------------------------------------- createPages
\* Array.prototype.includes
ArrIncludes(arr, x) == \E i \in 1..Len(arr) : arr[i] = x

\* Math.floor in place of Math.ceil
CeilAsFloor(a, b) == a \div b

\* Math.ceil(a / b) for a >= 0 and b >= 1
Ceil(a, b) == (a + b - 1) \div b

\* the check of result.errors left out
PanicsNever(result) == FALSE

\* if (result.errors) reporter.panic(result.errors); panic ends the build
Panics(result) == IsDefined(result.errors)

\* previous and next taken from the wrong neighbours
PostPagesSwapped(posts, themeOptions) ==
  [index \in 1..Len(posts) |->
     [path |-> posts[index].node.slug,
      component |-> "PostTemplate",
      context |->
        [basePath |-> themeOptions.basePath,
         pre_path |-> themeOptions.basePath,
         id |-> posts[index].node.id,
         previousId |-> IF index = 1 THEN Undefined
                        ELSE Some(posts[index - 1].node.id),
         nextId |-> IF index = Len(posts) THEN Undefined
                    ELSE Some(posts[index + 1].node.id)]]]

\* posts.forEach(createPage) for the post pages; index is 1-based here
PostPages(posts, themeOptions) ==
  [index \in 1..Len(posts) |->
     [path |-> posts[index].node.slug,
      component |-> "PostTemplate",
      context |->
        [basePath |-> themeOptions.basePath,
         pre_path |-> themeOptions.basePath,
         id |-> posts[index].node.id,
         previousId |-> IF index = Len(posts) THEN Undefined
                        ELSE Some(posts[index + 1].node.id),
         nextId |-> IF index = 1 THEN Undefined
                    ELSE Some(posts[index - 1].node.id)]]]

\* option ? posts.filter(({ node: { type } }) => !option.includes(type)) : posts
FilterByType(posts, option) ==
  IF IsDefined(option)
    THEN SelectSeq(posts, LAMBDA e : ~ArrIncludes(option[1], e.node.type))
    ELSE posts

ListingPath(basePath, index) ==
  IF index = 0 THEN basePath ELSE basePath \o NumToStr(index + 1)

\* the listing pages; index is the code's 0-based index
ListingPages(posts, themeOptions) ==
  LET filtered_posts_by_type ==
        FilterByType(posts, themeOptions.do_not_count_type_for_pagination)
      numPages == Ceil(Len(filtered_posts_by_type), themeOptions.postsPerPage)
  IN  [i \in 1..numPages |->
         LET index == i - 1
         IN  [path |-> ListingPath(themeOptions.basePath, index),
              component |-> "PostsTemplate",
              context |->
                [basePath |-> themeOptions.basePath,
                 pre_path |-> themeOptions.basePath,
                 limit |-> themeOptions.postsPerPage,
                 skip |-> index * themeOptions.postsPerPage,
                 num_of_pages |-> numPages,
                 current_page |-> index + 1,
                 this_is_a_tag_search |-> FALSE,
                 excluded_type |->
                   IF IsDefined(themeOptions.do_not_count_type_for_pagination)
                     THEN themeOptions.do_not_count_type_for_pagination[1]
                     ELSE <<>>,
                 all_posts |-> posts]]]

\* global_tags = global_tags.concat(tags) over the posts
RECURSIVE ConcatTags(_)
ConcatTags(posts) ==
  IF Len(posts) = 0 THEN <<>> ELSE posts[1].node.tags \o ConcatTags(Tail(posts))

\* counting_by_tags[tag]: one increment per occurrence of the tag in a tag list
CountingByTags(all_tags, tag) == Cardinality({i \in 1..Len(all_tags) : all_tags[i] = tag})

\* global_tags.filter(tag => tag !== do_not_create_tag_page_for): filter returns
\* a new array and the statement drops it, global_tags is what it was
FilterStatement(global_tags, do_not_create_tag_page_for) == global_tags

\* [...new Set(global_tags)]: first occurrences, in order
RECURSIVE Dedupe(_)
Dedupe(arr) ==
  IF Len(arr) = 0 THEN <<>>
  ELSE LET init == Dedupe(SubSeq(arr, 1, Len(arr) - 1))
           last == arr[Len(arr)]
       IN  IF ArrIncludes(init, last) THEN init ELSE Append(init, last)

TagPrePath(themeOptions, tag) ==
  themeOptions.basePath \o themeOptions.tagsPath \o <<"/">> \o tag

TagPath(themeOptions, tag, index) ==
  IF index = 0 THEN TagPrePath(themeOptions, tag) \o <<"/">>
  ELSE TagPrePath(themeOptions, tag) \o <<"/">> \o NumToStr(index + 1)

PagesOfTag(tag, global_tags, numPages_perTag, themeOptions) ==
  [i \in 1..numPages_perTag |->
     LET index == i - 1
     IN  [path |-> TagPath(themeOptions, tag, index),
          component |-> "PostsTemplate",
          context |->
            [basePath |-> themeOptions.basePath,
             pre_path |-> TagPrePath(themeOptions, tag),
             limit |-> themeOptions.postsPerPage,
             skip |-> index * themeOptions.postsPerPage,
             num_of_pages |-> numPages_perTag,
             current_page |-> index + 1,
             tag |-> tag,
             global_tags |-> global_tags,
             this_is_a_tag_search |-> TRUE]]]

RECURSIVE Flatten(_)
Flatten(seqs) == IF Len(seqs) = 0 THEN <<>> ELSE seqs[1] \o Flatten(Tail(seqs))

TagPages(posts, themeOptions) ==
  LET filtered_posts_by_tag ==
        FilterByType(posts, themeOptions.do_not_include_type_in_lists)
      all_tags == ConcatTags(filtered_posts_by_tag)
      global_tags ==
        Dedupe(FilterStatement(all_tags, themeOptions.do_not_create_tag_page_for))
  IN  Flatten([t \in 1..Len(global_tags) |->
                 PagesOfTag(global_tags[t], global_tags,
                            Ceil(CountingByTags(all_tags, global_tags[t]),
                                 themeOptions.postsPerPage),
                            themeOptions)])

AllPages(posts, themeOptions) ==
  PostPages(posts, themeOptions) \o ListingPages(posts, themeOptions)
    \o TagPages(posts, themeOptions)

\* ---- inputs of createPages
TagA == <<"a">>

TagB == <<"b">>

PostVariants ==
  {[type |-> "", tags |-> <<>>],
   [type |-> "", tags |-> <<TagA>>],
   [type |-> "", tags |-> <<TagA, TagB>>],
   [type |-> "", tags |-> <<TagA, TagA>>],
   [type |-> "recipe", tags |-> <<TagB>>]}

PostId(i) == <<"MdxBlogPost", i>>

\* allMdxBlogPost.edges, in the order of the query's sort
Edges(variants) ==
  [i \in 1..Len(variants) |->
     [node |-> [id |-> PostId(i),
                slug |-> <<"/", "p">> \o NumToStr(i),
                tags |-> variants[i].tags,
                type |-> variants[i].type]]]

PostLists == {Edges(v) : v \in UNION {[1..n -> PostVariants] : n \in 0..MaxPosts}}

QueryResults ==
  {[errors |-> Undefined, data |-> [allMdxBlogPost |-> [edges |-> e]]] : e \in PostLists}
  \cup
  {[errors |-> Some("GraphQLError"), data |-> [allMdxBlogPost |-> [edges |-> e]]] :
     e \in {l \in PostLists : Len(l) <= 1}}

TypeLists == {Undefined, Some(<<"recipe">>)}

CreateOptions ==
  {[DefaultOptions EXCEPT !.basePath = b, !.postsPerPage = n,
                          !.do_not_count_type_for_pagination = c,
                          !.do_not_include_type_in_lists = l,
                          !.do_not_create_tag_page_for = t] :
     b \in {Root, <<"/", "b", "/">>}, n \in 1..MaxPerPage, c \in TypeLists,
     l \in TypeLists, t \in {Undefined, Some(TagA)}}

\* the hook up to its await of graphql
CreatePages ==
  /\ Idle
  /\ \E themeOptions \in CreateOptions :
       /\ handler' = "createPages"
       /\ args' = [themeOptions |-> themeOptions, result |-> Undefined]
  /\ calls' = <<"graphql">>
  /\ pc' = "awaitGraphql"
  /\ UNCHANGED <<deletedPages, createdPages, createdNodes, links, panics, store>>

\* the host answers the query
GraphqlSettles ==
  /\ pc = "awaitGraphql"
  /\ \E result \in QueryResults : args' = [args EXCEPT !.result = Some(result)]
  /\ pc' = "graphqlSettled"
  /\ UNCHANGED <<handler, calls, deletedPages, createdPages, createdNodes, links,
                 panics, store>>

\* the hook after the await
CreatePagesResume ==
  /\ pc = "graphqlSettled"
  /\ LET result == args.result[1]
         posts == result.data.allMdxBlogPost.edges
         pages == AllPages(posts, args.themeOptions)
     IN  IF Panics(result)
           THEN /\ calls' = Append(calls, "reporter.panic")
                /\ panics' = Append(panics, result.errors[1])
                /\ createdPages' = createdPages
                /\ pc' = "aborted"
           ELSE /\ calls' = calls \o [i \in 1..Len(pages) |-> "createPage"]
                /\ panics' = panics
                /\ createdPages' = pages
                /\ pc' = "done"
  /\ UNCHANGED <<handler, args, deletedPages, createdNodes, links, store>>

Init ==
  /\ pc = "idle"
  /\ handler = "none"
  /\ args = <<>>
  /\ calls = <<>>
  /\ deletedPages = <<>>
  /\ createdPages = <<>>
  /\ createdNodes = <<>>
  /\ links = <<>>
  /\ panics = <<>>
  /\ store = {}

Next ==
  \/ OnCreatePage
  \/ OnCreateNode
  \/ CreateNodeSettles
  \/ OnCreateNodeResume
  \/ CreatePages
  \/ GraphqlSettles
  \/ CreatePagesResume

Spec == Init /\ [][Next]_vars

\* ------------------------------------------------------------------ claims
\* a path without its trailing slash, "/" kept
WithoutTrailingSlash(s) ==
  IF Len(s) > 1 /\ s[Len(s)] = "/" THEN SubSeq(s, 1, Len(s) - 1) ELSE s

\* the least k with k * per >= n
PagesNeeded(n, per) == CHOOSE k \in 0..n : k * per >= n /\ (k = 0 \/ (k - 1) * per < n)

NodeCreated == handler = "onCreateNode" /\ Len(createdNodes) = 1

PagesDone == handler = "createPages" /\ pc = "done"

QueriedPosts == args.result[1].data.allMdxBlogPost.edges

\* C1: every MdxBlogPost record created by onCreateNode stores a slug that
\* does not end in "/" unless it is exactly "/" and has no doubled "/".
C1_SlugNormalized ==
  NodeCreated =>
    LET slug == createdNodes[1].slug
    IN  /\ (Len(slug) > 0 /\ slug[Len(slug)] = "/") => slug = Root
        /\ ~HasDoubleSlash(slug)

\* C2 as stated: the record is created, an absent optional field (undefined,
\* or null for a key left empty) gets its empty default, and every present
\* field is copied unchanged.
C2_PresentCopiedUnchanged ==
  (handler = "onCreateNode"
     /\ args.node.internal.type = "Mdx"
     /\ args.fileNode.sourceInstanceName
          \in {args.themeOptions.postsPath, args.themeOptions.recipesPath}) =>
    /\ Len(createdNodes) = 1
    /\ LET fm == args.node.frontmatter
           f == createdNodes[1]
           Copied(given, stored, default) ==
             IF given.t \in {"undefined", "null"} THEN stored = default
             ELSE stored = given
       IN  /\ fm.tags = Undefined => f.tags = <<>>
           /\ Copied(fm.keywords, f.keywords, JsArray(<<>>))
           /\ Copied(fm.type, f.type, JsString(""))
           /\ Copied(fm.snippet, f.snippet, JsString(""))
           /\ Copied(fm.abstract, f.abstract, JsString(""))

\* C2 amended: the record is created, an absent optional field gets its empty
\* default, a present field with a truthy value (a non-empty string, an
\* array) is copied unchanged, and a present empty string is replaced by the
\* field's default like an absent one: keywords "" is stored as [].
C2_DefaultsForFalsy ==
  (handler = "onCreateNode"
     /\ args.node.internal.type = "Mdx"
     /\ args.fileNode.sourceInstanceName
          \in {args.themeOptions.postsPath, args.themeOptions.recipesPath}) =>
    /\ Len(createdNodes) = 1
    /\ LET fm == args.node.frontmatter
           f == createdNodes[1]
           Falsy(v) == v.t \in {"undefined", "null"} \/ (v.t = "string" /\ v.s = "")
           Stored(given, stored, default) ==
             IF Falsy(given) THEN stored = default ELSE stored = given
       IN  /\ fm.tags = Undefined => f.tags = <<>>
           /\ Stored(fm.keywords, f.keywords, JsArray(<<>>))
           /\ Stored(fm.type, f.type, JsString(""))
           /\ Stored(fm.snippet, f.snippet, JsString(""))
           /\ Stored(fm.abstract, f.abstract, JsString(""))

C2_Witness ==
  /\ NodeCreated
  /\ pc = "done"
  /\ args.node.frontmatter.tags = Undefined
  /\ args.node.frontmatter.keywords = JsString("")
  /\ args.node.frontmatter.type = JsUndefined
  /\ args.node.frontmatter.snippet = JsString("s")
  /\ createdNodes[1].keywords = JsArray(<<>>)
  /\ createdNodes[1].type = JsString("")
  /\ createdNodes[1].snippet = JsString("s")

\* C3: when the query result carries errors, reporter.panic is called, no
\* createPage call precedes it and no page is created in that pass.
C3_PanicAborts ==
  (handler = "createPages" /\ IsDefined(args.result)
     /\ args.result[1].errors # Undefined) =>
    /\ createdPages = <<>>
    /\ ~ArrIncludes(calls, "createPage")
    /\ pc # "done"
    /\ pc = "aborted" =>
         /\ calls = <<"graphql", "reporter.panic">>
         /\ panics = <<args.result[1].errors[1]>>

C3_Witness ==
  /\ handler = "createPages"
  /\ pc = "aborted"
  /\ Len(QueriedPosts) = 1
  /\ panics = <<"GraphQLError">>
  /\ createdPages = <<>>

\* C4: one post page per queried post, with path = slug and context.id = id;
\* previousId is the id of the post at the next index (undefined for the
\* last), nextId the id of the post at the previous index (undefined for the
\* first), so A.previousId = B exactly when B.nextId = A.
C4_PostPages ==
  PagesDone =>
    LET posts == QueriedPosts
        pp == SelectSeq(createdPages, LAMBDA p : p.component = "PostTemplate")
    IN  /\ Len(pp) = Len(posts)
        /\ \A i \in 1..Len(posts) :
             /\ Cardinality({j \in 1..Len(pp) : pp[j].context.id = posts[i].node.id}) = 1
             /\ pp[i].path = posts[i].node.slug
             /\ pp[i].context.id = posts[i].node.id
             /\ pp[i].context.previousId =
                  (IF i = Len(posts) THEN Undefined ELSE <<posts[i + 1].node.id>>)
             /\ pp[i].context.nextId =
                  (IF i = 1 THEN Undefined ELSE <<posts[i - 1].node.id>>)
        /\ \A a, b \in 1..Len(pp) :
             (pp[a].context.previousId = <<pp[b].context.id>>)
               <=> (pp[b].context.nextId = <<pp[a].context.id>>)

C4_Witness ==
  /\ PagesDone
  /\ Len(QueriedPosts) = 3
  /\ createdPages[2].component = "PostTemplate"
  /\ createdPages[2].context.previousId = <<PostId(3)>>
  /\ createdPages[2].context.nextId = <<PostId(1)>>
  /\ createdPages[3].context.previousId = Undefined

\* C5: with N the number of posts whose type is not in
\* do_not_count_type_for_pagination (all posts when unset), there are exactly
\* ceil(N / postsPerPage) listing pages; page i (0-based) has current_page =
\* i + 1 <= num_of_pages, limit = postsPerPage, skip = i * postsPerPage < N,
\* path basePath for i = 0 and basePath followed by i + 1 otherwise, and the
\* windows [skip, skip + limit) cover every index 0..N-1 exactly once.
C5_ListingPages ==
  PagesDone =>
    LET posts == QueriedPosts
        o == args.themeOptions
        excluded == IF o.do_not_count_type_for_pagination = Undefined THEN {}
                    ELSE {o.do_not_count_type_for_pagination[1][k] :
                            k \in 1..Len(o.do_not_count_type_for_pagination[1])}
        N == Cardinality({i \in 1..Len(posts) : posts[i].node.type \notin excluded})
        lp == SelectSeq(createdPages,
                        LAMBDA p : p.component = "PostsTemplate"
                                     /\ ~p.context.this_is_a_tag_search)
    IN  /\ Len(lp) = PagesNeeded(N, o.postsPerPage)
        /\ \A j \in 1..Len(lp) :
             /\ lp[j].context.current_page = j
             /\ lp[j].context.current_page <= lp[j].context.num_of_pages
             /\ lp[j].context.num_of_pages = Len(lp)
             /\ lp[j].context.limit = o.postsPerPage
             /\ lp[j].context.skip = (j - 1) * o.postsPerPage
             /\ lp[j].context.skip < N
             /\ lp[j].path = (IF j = 1 THEN o.basePath ELSE o.basePath \o NumToStr(j))
        /\ \A x \in 0..(N - 1) :
             Cardinality({j \in 1..Len(lp) :
                            /\ lp[j].context.skip <= x
                            /\ x < lp[j].context.skip + lp[j].context.limit}) = 1

C5_Witness ==
  /\ PagesDone
  /\ args.themeOptions.postsPerPage = 1
  /\ args.themeOptions.basePath = <<"/", "b", "/">>
  /\ args.themeOptions.do_not_count_type_for_pagination = <<(<<"recipe">>)>>
  /\ Len(QueriedPosts) = 3
  /\ QueriedPosts[1].node.type = ""
  /\ QueriedPosts[2].node.type = "recipe"
  /\ QueriedPosts[3].node.type = ""
  /\ Len(SelectSeq(createdPages,
                   LAMBDA p : p.component = "PostsTemplate"
                                /\ ~p.context.this_is_a_tag_search)) = 2
  /\ \E j \in 1..Len(createdPages) :
       /\ createdPages[j].component = "PostsTemplate"
       /\ ~createdPages[j].context.this_is_a_tag_search
       /\ createdPages[j].context.skip = 1
       /\ createdPages[j].path = <<"/", "b", "/", "2">>

\* C6 as stated: each distinct tag carried by a post whose type is not in
\* do_not_include_type_in_lists gets exactly ceil(n / postsPerPage) tag pages,
\* n the number of such posts carrying the tag (a post counted once), with
\* num_of_pages that count, skip = i * postsPerPage and current_page = i + 1;
\* a tag carried only by posts of an excluded type gets no tag page.
C6_TagPagesPerPost ==
  PagesDone =>
    LET posts == QueriedPosts
        o == args.themeOptions
        excluded == IF o.do_not_include_type_in_lists = Undefined THEN {}
                    ELSE {o.do_not_include_type_in_lists[1][k] :
                            k \in 1..Len(o.do_not_include_type_in_lists[1])}
        listed == {i \in 1..Len(posts) : posts[i].node.type \notin excluded}
        TagsAt(i) == {posts[i].node.tags[k] : k \in 1..Len(posts[i].node.tags)}
        allTags == UNION {TagsAt(i) : i \in 1..Len(posts)}
        tp(tag) == SelectSeq(createdPages,
                             LAMBDA p : /\ p.component = "PostsTemplate"
                                        /\ p.context.this_is_a_tag_search
                                        /\ p.context.tag = tag)
    IN  \A tag \in allTags :
          LET n == Cardinality({i \in listed : tag \in TagsAt(i)})
          IN  /\ Len(tp(tag)) = PagesNeeded(n, o.postsPerPage)
              /\ \A j \in 1..Len(tp(tag)) :
                   /\ tp(tag)[j].context.num_of_pages = Len(tp(tag))
                   /\ tp(tag)[j].context.skip = (j - 1) * o.postsPerPage
                   /\ tp(tag)[j].context.current_page = j

\* C7: the tag named by do_not_create_tag_page_for gets no tag page and is
\* in no tag page's global_tags.
C7_NoPageForExcludedTag ==
  (PagesDone /\ args.themeOptions.do_not_create_tag_page_for # Undefined) =>
    \A j \in 1..Len(createdPages) :
      (createdPages[j].component = "PostsTemplate"
         /\ createdPages[j].context.this_is_a_tag_search) =>
        /\ createdPages[j].context.tag # args.themeOptions.do_not_create_tag_page_for[1]
        /\ ~ArrIncludes(createdPages[j].context.global_tags,
                        args.themeOptions.do_not_create_tag_page_for[1])

\* C8: an absolute front-matter slug is used as given, not under basePath; a
\* relative one is resolved under basePath; with none, the slug is the file
\* path resolved under basePath, and a file path with a YYYY.MM.DD. prefix
\* gives the whole remainder after that prefix (each less its trailing slash).
C8_SlugPrecedence ==
  NodeCreated =>
    LET fm == args.node.frontmatter
        base == args.themeOptions.basePath
        filePath == createFilePath(args.fileNode)
        slug == createdNodes[1].slug
    IN  IF fm.slug # Undefined /\ fm.slug[1] # <<>>
          THEN IF fm.slug[1][1] = "/"
                 THEN slug = WithoutTrailingSlash(fm.slug[1])
                 ELSE slug = WithoutTrailingSlash(urlResolve(base, fm.slug[1]))
          ELSE IF HasDatePrefix(filePath)
                 THEN slug = WithoutTrailingSlash(
                               urlResolve(base, <<"/">> \o SubSeq(filePath, 13, Len(filePath))))
                 ELSE slug = WithoutTrailingSlash(urlResolve(base, filePath))

\* C9: for an Mdx node whose file's sourceInstanceName is postsPath or
\* recipesPath, createNode is called once for an MdxBlogPost with parent =
\* node.id and createParentChildLink once, only after createNode has
\* completed, with the created node as child; for any other node neither is
\* called.
C9_NodeThenLink ==
  handler = "onCreateNode" =>
    IF args.node.internal.type = "Mdx"
         /\ args.fileNode.sourceInstanceName
              \in {args.themeOptions.postsPath, args.themeOptions.recipesPath}
      THEN /\ Len(createdNodes) = 1
           /\ createdNodes[1].internal.type = "MdxBlogPost"
           /\ createdNodes[1].parent = args.node.id
           /\ Len(links) > 0 =>
                /\ createdNodes[1] \in store
                /\ links = <<[parent |-> args.node, child |-> <<createdNodes[1]>>]>>
           /\ pc = "done" => calls = <<"createNode", "createParentChildLink">>
           /\ pc # "done" => calls = <<"createNode">> /\ links = <<>>
      ELSE /\ calls = <<>>
           /\ createdNodes = <<>>
           /\ links = <<>>

C9_Witness ==
  /\ handler = "onCreateNode"
  /\ pc = "done"
  /\ args.fileNode.sourceInstanceName = args.themeOptions.recipesPath
  /\ calls = <<"createNode", "createParentChildLink">>
  /\ links[1].child = <<createdNodes[1]>>

====
